---- MODULE Spec2Model ----
\* whoAMI-scanner (src/main.go): the scan loop of main over regions and
\* instances, the classification of each distinct image into one of four
\* buckets, the printed summary and the pipe-delimited export.
EXTENDS Integers, Sequences, FiniteSets

\* ------------------------------------------------------------------ bounds
\* Largest number of instances DescribeInstances lists in one region.
MaxInstances == 2
\* DescribeImages is asked for one image id (ImageIds: []string{amiID}), so
\* its answer carries at most one image.
MaxImagesPerId == 1

\* ------------------------------------------------------------------ inputs
\* The region lists of the model: the one region of the -region flag, or
\* the answer of DescribeRegions.
RegionLists == {<<"A">>, <<"A", "B">>, <<"A", "B", "C">>}
ImageIds == {"ami-1", "ami-2", "ami-3"}

\* A *string of the SDK is a sequence: <<>> is nil, <<s>> points to s.
NilPtr == <<>>
Ptr(s) == <<s>>
\* ptr.ToString: "" for nil, the pointed-to string otherwise.
ToString(p) == IF p = NilPtr THEN "" ELSE p[1]

OwnerAliases == {NilPtr, Ptr(""), Ptr("amazon"), Ptr("self"), Ptr("12345")}
OwnerIds == {Ptr("999999999999")}
ImageNames == {Ptr("ubuntu")}
ImageDescriptions == {NilPtr}

\* The aliases the model gives to images that are not public.
PrivateOwnerAliases == {NilPtr, Ptr("amazon")}

\* types.Image, the fields main reads.
Images ==
  [Public : {TRUE}, ImageOwnerAlias : OwnerAliases, OwnerId : OwnerIds,
   Name : ImageNames, Description : ImageDescriptions]
    \cup
  [Public : {FALSE}, ImageOwnerAlias : PrivateOwnerAliases, OwnerId : OwnerIds,
   Name : ImageNames, Description : ImageDescriptions]

\* imageOutput.Images: a list of at most MaxImagesPerId images.
ImageLists ==
  UNION {[1..n -> Images] : n \in 0..MaxImagesPerId}

\* ------------------------------------------------------------------ state
VARIABLES
  regions,          \* the region list of the run
  pc,               \* "regions", "instances", "summary", "done", "exit"
  regionIdx,        \* index in regions of the region being scanned
  numInstances,     \* len(instanceIDs) of the region being scanned
  i,                \* instances of the region handled so far
  processedAMIs,    \* keys of the map processedAMIs
  verifiedAMIs, unverifiedAMIs, unknownAMIs, privateAMIs,  \* id -> AMI
  totalInstances,
  summary,          \* <<the numbers the summary printed>>, <<>> before it
  file,             \* the lines written to the export, <<>> before it
  resolverCalls,    \* history: id -> number of DescribeImages calls for it
  firstSeen,        \* history: id -> region of the first instance using it
  lastResolved,     \* history: <<the DescribeImages call of the step just
                    \* taken and its answer>>, <<>> if the step made none
  failedRegions,    \* history: regions whose instance listing failed
  listedRegions,    \* history: regions whose instance listing succeeded
  trace             \* history: what is left of the end-to-end scenario

vars ==
  <<regions, pc, regionIdx, numInstances, i, processedAMIs,
    verifiedAMIs, unverifiedAMIs, unknownAMIs, privateAMIs, totalInstances,
    summary, file, resolverCalls, firstSeen, lastResolved, failedRegions,
    listedRegions, trace>>

EmptyMap == [x \in {} |-> x]
Put(m, k, v) == [x \in DOMAIN m \cup {k} |-> IF x = k THEN v ELSE m[x]]

region == regions[regionIdx]

\* The four buckets as one value, for the functions that file an image.
Buckets ==
  [verified |-> verifiedAMIs, unverified |-> unverifiedAMIs,
   unknown |-> unknownAMIs, private |-> privateAMIs]

\* ------------------------------------------------- the end-to-end scenario
\* Region A: an instance of ami-1 (public, alias "amazon"), an instance of
\* ami-2 (public, alias "", owner 999999999999); region B: an instance of
\* ami-1, an instance of ami-3 (DescribeImages returns no image).
ScenarioImage(alias) ==
  [Public |-> TRUE, ImageOwnerAlias |-> Ptr(alias),
   OwnerId |-> Ptr("999999999999"), Name |-> Ptr("ubuntu"),
   Description |-> NilPtr]
Scenario ==
  << [op |-> "list", n |-> 2],
     [op |-> "image", id |-> "ami-1", images |-> <<ScenarioImage("amazon")>>],
     [op |-> "image", id |-> "ami-2", images |-> <<ScenarioImage("")>>],
     [op |-> "list", n |-> 2],
     [op |-> "seen", id |-> "ami-1"],
     [op |-> "image", id |-> "ami-3", images |-> <<>>] >>
Diverged == <<[op |-> "diverged"]>>
\* What is left of the scenario once the run has taken input e.
Follow(e) ==
  IF trace # <<>> /\ Head(trace) = e THEN Tail(trace) ELSE Diverged

\* ------------------------------------------------------------------- Init
Init ==
  /\ regions \in RegionLists
  /\ pc = "regions"
  /\ regionIdx = 1
  /\ numInstances = 0
  /\ i = 0
  /\ processedAMIs = {}
  /\ verifiedAMIs = EmptyMap
  /\ unverifiedAMIs = EmptyMap
  /\ unknownAMIs = EmptyMap
  /\ privateAMIs = EmptyMap
  /\ totalInstances = 0
  /\ summary = <<>>
  /\ file = <<>>
  /\ resolverCalls = [id \in ImageIds |-> 0]
  /\ firstSeen = EmptyMap
  /\ lastResolved = <<>>
  /\ failedRegions = {}
  /\ listedRegions = {}
  /\ trace = IF regions = <<"A", "B">> THEN Scenario ELSE Diverged

\* ------------------------------------------------------- the region loop
\* Mutant of RegionUnavailable: the failure ends the run, as the failure of
\* DescribeRegions does (main.go:73-76).
RegionUnavailableFatal ==
  /\ pc = "regions"
  /\ regionIdx <= Len(regions)
  /\ pc' = "exit"
  /\ failedRegions' = failedRegions \cup {region}
  /\ trace' = Follow([op |-> "fail"])
  /\ lastResolved' = <<>>
  /\ UNCHANGED <<regions, regionIdx, numInstances, i, processedAMIs,
                 verifiedAMIs, unverifiedAMIs, unknownAMIs, privateAMIs,
                 totalInstances, summary, file, resolverCalls, firstSeen,
                 listedRegions>>

\* main.go:102-105: DescribeInstances fails for the region; the loop
\* continues with the next region.
RegionUnavailable ==
  /\ pc = "regions"
  /\ regionIdx <= Len(regions)
  /\ regionIdx' = regionIdx + 1
  /\ failedRegions' = failedRegions \cup {region}
  /\ trace' = Follow([op |-> "fail"])
  /\ lastResolved' = <<>>
  /\ UNCHANGED <<regions, pc, numInstances, i, processedAMIs,
                 verifiedAMIs, unverifiedAMIs, unknownAMIs, privateAMIs,
                 totalInstances, summary, file, resolverCalls, firstSeen,
                 listedRegions>>

\* Mutant of CountInstances: the count is assigned, not added.
CountInstancesOverwrite(n) == n

\* main.go:114: totalInstances += len(instanceIDs).
CountInstances(n) == totalInstances + n

\* main.go:101-117: DescribeInstances lists n instances in the region; with
\* none the loop continues with the next region.
ListInstances(n) ==
  /\ pc = "regions"
  /\ regionIdx <= Len(regions)
  /\ totalInstances' = CountInstances(n)
  /\ listedRegions' = listedRegions \cup {region}
  /\ trace' = Follow([op |-> "list", n |-> n])
  /\ IF n = 0
       THEN /\ regionIdx' = regionIdx + 1
            /\ UNCHANGED <<pc, numInstances, i>>
       ELSE /\ pc' = "instances"
            /\ numInstances' = n
            /\ i' = 0
            /\ UNCHANGED regionIdx
  /\ lastResolved' = <<>>
  /\ UNCHANGED <<regions, processedAMIs, verifiedAMIs, unverifiedAMIs,
                 unknownAMIs, privateAMIs, summary, file, resolverCalls,
                 firstSeen, failedRegions>>

\* main.go:119, 213-214: the end of one iteration of the instance loop; after
\* the region's last instance the region loop moves on.
NextInstance ==
  IF i + 1 = numInstances
    THEN /\ pc' = "regions"
         /\ regionIdx' = regionIdx + 1
         /\ numInstances' = 0
         /\ i' = 0
    ELSE /\ i' = i + 1
         /\ UNCHANGED <<pc, regionIdx, numInstances>>

\* main.go:121-130: the detail call for the instance fails, or its answer
\* holds no instance: nothing is read from it.
InstanceSkipped ==
  /\ pc = "instances"
  /\ NextInstance
  /\ trace' = Follow([op |-> "skip"])
  /\ lastResolved' = <<>>
  /\ UNCHANGED <<regions, processedAMIs, verifiedAMIs,
                 unverifiedAMIs, unknownAMIs, privateAMIs, totalInstances,
                 summary, file, resolverCalls, firstSeen, failedRegions, listedRegions>>

\* Mutant of AlreadyProcessed: the processed mark is never found.
NeverProcessed(amiID) == FALSE

\* main.go:133: processedAMIs[amiID].
AlreadyProcessed(amiID) == amiID \in processedAMIs

\* History of main.go:131: the region of the first instance seen using amiID.
Observe(amiID) ==
  IF amiID \in DOMAIN firstSeen THEN firstSeen
  ELSE Put(firstSeen, amiID, region)

\* main.go:131-138: the instance's image was handled before; it is skipped.
ImageAlreadyProcessed(amiID) ==
  /\ pc = "instances"
  /\ AlreadyProcessed(amiID)
  /\ NextInstance
  /\ firstSeen' = Observe(amiID)
  /\ trace' = Follow([op |-> "seen", id |-> amiID])
  /\ lastResolved' = <<>>
  /\ UNCHANGED <<regions, processedAMIs, verifiedAMIs,
                 unverifiedAMIs, unknownAMIs, privateAMIs, totalInstances,
                 summary, file, resolverCalls, failedRegions,
                 listedRegions>>

\* ------------------------------------------------------- classification
\* Mutant of NewAMI: the record names the first region of the list, not the
\* region being scanned.
NewAMIFirstRegion(amiID, rgn, image) ==
  [ID |-> amiID, Region |-> regions[1],
   OwnerAlias |-> ToString(image.ImageOwnerAlias),
   OwnerID |-> ToString(image.OwnerId),
   Name |-> ToString(image.Name),
   Description |-> ToString(image.Description),
   Public |-> IF image.Public THEN "Public" ELSE "Private"]

\* main.go:171-184: the AMI record built from a resolved image.
NewAMI(amiID, rgn, image) ==
  [ID |-> amiID, Region |-> rgn,
   OwnerAlias |-> ToString(image.ImageOwnerAlias),
   OwnerID |-> ToString(image.OwnerId),
   Name |-> ToString(image.Name),
   Description |-> ToString(image.Description),
   Public |-> IF image.Public THEN "Public" ELSE "Private"]

\* main.go:157-165: the record of an image DescribeImages does not return.
UnknownAMI(amiID, rgn) ==
  [ID |-> amiID, Region |-> rgn, OwnerAlias |-> "Unknown",
   Public |-> "Unknown", OwnerID |-> "Unknown", Name |-> "Unknown",
   Description |-> "Unknown"]

\* main.go:186-209: the bucket one resolved image is filed in. A public
\* whose alias is neither empty, "amazon" nor "self" matches no branch and is
\* filed nowhere.
FileImage(b, amiID, rgn, image) ==
  LET ami == NewAMI(amiID, rgn, image) IN
  IF image.Public
    THEN IF ami.OwnerAlias # ""
           THEN IF ami.OwnerAlias = "amazon"
                  THEN [b EXCEPT !.verified = Put(@, amiID, ami)]
                ELSE IF ami.OwnerAlias = "self"
                  THEN [b EXCEPT !.private = Put(@, amiID, ami)]
                ELSE b
           ELSE [b EXCEPT !.unverified = Put(@, amiID, ami)]
    ELSE [b EXCEPT !.private = Put(@, amiID, ami)]

\* main.go:169-210: the loop over imageOutput.Images.
RECURSIVE FileImages(_, _, _, _)
FileImages(b, amiID, rgn, images) ==
  IF images = <<>> THEN b
  ELSE FileImages(FileImage(b, amiID, rgn, Head(images)), amiID, rgn,
                  Tail(images))

\* main.go:139-146: the id is marked processed and DescribeImages is called.
MarkAndResolve(amiID) ==
  /\ processedAMIs' = processedAMIs \cup {amiID}
  /\ resolverCalls' = [resolverCalls EXCEPT ![amiID] = @ + 1]
  /\ firstSeen' = Observe(amiID)

\* main.go:131-154: a new image id whose DescribeImages call fails; the id
\* stays marked processed and the loop continues.
ImageResolveError(amiID) ==
  /\ pc = "instances"
  /\ ~AlreadyProcessed(amiID)
  /\ MarkAndResolve(amiID)
  /\ lastResolved' = <<[id |-> amiID, err |-> TRUE, images |-> <<>>]>>
  /\ NextInstance
  /\ trace' = Follow([op |-> "error", id |-> amiID])
  /\ UNCHANGED <<regions, verifiedAMIs, unverifiedAMIs, unknownAMIs,
                 privateAMIs, totalInstances, summary, file, failedRegions,
                 listedRegions>>

\* main.go:131-167: a new image id for which DescribeImages returns no image.
ImageNotFound(amiID) ==
  /\ pc = "instances"
  /\ ~AlreadyProcessed(amiID)
  /\ MarkAndResolve(amiID)
  /\ lastResolved' = <<[id |-> amiID, err |-> FALSE, images |-> <<>>]>>
  /\ unknownAMIs' = Put(unknownAMIs, amiID, UnknownAMI(amiID, region))
  /\ NextInstance
  /\ trace' = Follow([op |-> "image", id |-> amiID, images |-> <<>>])
  /\ UNCHANGED <<regions, verifiedAMIs, unverifiedAMIs, privateAMIs,
                 totalInstances, summary, file, failedRegions, listedRegions>>

\* main.go:131-210: a new image id that DescribeImages resolves.
ImageResolved(amiID, images) ==
  /\ pc = "instances"
  /\ ~AlreadyProcessed(amiID)
  /\ images # <<>>
  /\ MarkAndResolve(amiID)
  /\ lastResolved' = <<[id |-> amiID, err |-> FALSE, images |-> images]>>
  /\ LET b == FileImages(Buckets, amiID, region, images) IN
       /\ verifiedAMIs' = b.verified
       /\ unverifiedAMIs' = b.unverified
       /\ unknownAMIs' = b.unknown
       /\ privateAMIs' = b.private
  /\ NextInstance
  /\ trace' = Follow([op |-> "image", id |-> amiID, images |-> images])
  /\ UNCHANGED <<regions, totalInstances, summary, file,
                 failedRegions, listedRegions>>

\* -------------------------------------------------- summary and export
Size(m) == Cardinality(DOMAIN m)

\* main.go:233-239: the six numbers of the summary.
SummaryOf ==
  [totalInstances |-> totalInstances,
   totalAMIs |-> Cardinality(processedAMIs),
   private |-> Size(privateAMIs),
   verified |-> Size(verifiedAMIs),
   unknown |-> Size(unknownAMIs),
   unverified |-> Size(unverifiedAMIs)]

\* main.go:93, 216-239: the region loop is over; the summary is printed.
PrintSummary ==
  /\ pc = "regions"
  /\ regionIdx > Len(regions)
  /\ pc' = "summary"
  /\ summary' = <<SummaryOf>>
  /\ lastResolved' = <<>>
  /\ UNCHANGED <<regions, regionIdx, numInstances, i, processedAMIs,
                 verifiedAMIs, unverifiedAMIs, unknownAMIs, privateAMIs,
                 totalInstances, file, resolverCalls, firstSeen, failedRegions, listedRegions, trace>>

\* A line of the export is the sequence of its fields, which WriteString
\* joins with "|"; no field of the model holds a "|".
\* main.go:250: the header line.
Header ==
  <<"AMI ID", "Region", "whoAMI status", "Public", "Owner Alias", "Owner ID",
    "Name", "Description">>

\* main.go:252, 255, 261: the row of a verified, private or unverified image.
Row(ami, status) ==
  <<ami.ID, ami.Region, status, ami.Public, ami.OwnerAlias, ami.OwnerID,
    ami.Name, ami.Description>>

\* main.go:258: the row of an unknown image.
UnknownRow(ami) ==
  <<ami.ID, ami.Region, "Unknown", "Unknown", "Unknown", "Unknown", "Unknown">>

\* The orders in which a range over map m can visit its keys: Go leaves the
\* iteration order of a map unspecified.
RangeOrders(m) ==
  {o \in [1..Size(m) -> DOMAIN m] :
     \A j, k \in 1..Size(m) : j # k => o[j] # o[k]}

\* main.go:250-262: the lines written when the four range loops visit the
\* buckets' keys in the orders ov, op, ok, ou.
ExportLines(ov, op, ok, ou) ==
  <<Header>>
    \o [j \in 1..Len(ov) |-> Row(verifiedAMIs[ov[j]], "Verified")]
    \o [j \in 1..Len(op) |-> Row(privateAMIs[op[j]], "Private")]
    \o [j \in 1..Len(ok) |-> UnknownRow(unknownAMIs[ok[j]])]
    \o [j \in 1..Len(ou) |-> Row(unverifiedAMIs[ou[j]], "Unverified")]

\* Every file the export can write from the current buckets.
ExportFiles ==
  {ExportLines(ov, op, ok, ou) :
     ov \in RangeOrders(verifiedAMIs), op \in RangeOrders(privateAMIs),
     ok \in RangeOrders(unknownAMIs), ou \in RangeOrders(unverifiedAMIs)}

\* The -output flag is read here for the first time (main.go:241), so its
\* value is drawn by the step that reads it.
\* main.go:241: no -output flag; main returns after the summary.
NoExport ==
  /\ pc = "summary"
  /\ pc' = "done"
  /\ UNCHANGED <<regions, regionIdx, numInstances, i, processedAMIs,
                 verifiedAMIs, unverifiedAMIs, unknownAMIs, privateAMIs,
                 totalInstances, summary, file, resolverCalls, firstSeen,
                 lastResolved, failedRegions, listedRegions, trace>>

\* main.go:243-247: os.Create fails; the process exits with status 1.
ExportCreateFails ==
  /\ pc = "summary"
  /\ pc' = "exit"
  /\ UNCHANGED <<regions, regionIdx, numInstances, i, processedAMIs,
                 verifiedAMIs, unverifiedAMIs, unknownAMIs, privateAMIs,
                 totalInstances, summary, file, resolverCalls, firstSeen,
                 lastResolved, failedRegions, listedRegions, trace>>

\* main.go:243-271: the export file is written.
WriteExport ==
  /\ pc = "summary"
  /\ file' \in ExportFiles
  /\ pc' = "done"
  /\ UNCHANGED <<regions, regionIdx, numInstances, i, processedAMIs,
                 verifiedAMIs, unverifiedAMIs, unknownAMIs, privateAMIs,
                 totalInstances, summary, resolverCalls, firstSeen,
                 lastResolved, failedRegions, listedRegions, trace>>

\* ------------------------------------------------------------------ Spec
Next ==
  \/ RegionUnavailable
  \/ \E n \in 0..MaxInstances : ListInstances(n)
  \/ InstanceSkipped
  \/ \E amiID \in ImageIds : ImageAlreadyProcessed(amiID)
  \/ \E amiID \in ImageIds : ImageResolveError(amiID)
  \/ \E amiID \in ImageIds : ImageNotFound(amiID)
  \/ \E amiID \in ImageIds, images \in ImageLists : ImageResolved(amiID, images)
  \/ PrintSummary
  \/ NoExport
  \/ ExportCreateFails
  \/ WriteExport

Spec == Init /\ [][Next]_vars

\* ================================================================ claims
Finished == pc \in {"summary", "done", "exit"}
BucketNames == {"verified", "unverified", "unknown", "private"}
\* The buckets that hold a record for id.
Holding(id) == {n \in BucketNames : id \in DOMAIN Buckets[n]}
\* The image ids an instance has been seen using.
Observed == DOMAIN firstSeen
RECURSIVE SumCalls(_)
SumCalls(S) ==
  IF S = {} THEN 0
  ELSE LET id == CHOOSE x \in S : TRUE
       IN resolverCalls[id] + SumCalls(S \ {id})

\* C1: once the scan loop has finished, every image id marked processed is a
\* key of exactly one of the four buckets.
Coverage ==
  Finished => \A id \in processedAMIs : Cardinality(Holding(id)) = 1

\* C2: the four bucket counts of the printed summary add up to its
\* 'Total AMIs', which is at most its 'Total Instances'.
Reconciliation ==
  summary # <<>> =>
    LET t == summary[1] IN
    /\ t.private + t.verified + t.unknown + t.unverified = t.totalAMIs
    /\ t.totalAMIs <= t.totalInstances

\* C3: DescribeImages is called exactly once for every image id observed and
\* never for any other, however many instances and regions share the id.
Dedup ==
  /\ \A id \in ImageIds :
       resolverCalls[id] = IF id \in Observed THEN 1 ELSE 0
  /\ SumCalls(ImageIds) = Cardinality(Observed)
  /\ processedAMIs = Observed

\* C3 witness: ami-1, resolved in region A, has just been met again in region
\* B and DescribeImages was still called once for it.
DedupWitness ==
  /\ Len(trace) = 1
  /\ trace # Diverged
  /\ pc = "instances"
  /\ region = "B"
  /\ firstSeen["ami-1"] = "A"
  /\ resolverCalls["ami-1"] = 1

\* C4: a resolved public image whose owner alias is absent, empty or anything
\* but "amazon" and "self" is filed in the Unverified bucket.
PublicThirdPartyUnverified ==
  \A k \in DOMAIN lastResolved :
    LET r == lastResolved[k] IN
    (/\ ~r.err
     /\ r.images # <<>>
     /\ \A j \in DOMAIN r.images :
          /\ r.images[j].Public
          /\ ToString(r.images[j].ImageOwnerAlias) \notin {"amazon", "self"})
      => r.id \in DOMAIN unverifiedAMIs

\* C5: an image whose DescribeImages call returns an error is filed in the
\* Unknown bucket with an Unknown record, as a NotFound image is.
ResolverErrorIsUnknown ==
  \A k \in DOMAIN lastResolved :
    LET r == lastResolved[k] IN
    r.err =>
      /\ r.id \in DOMAIN unknownAMIs
      /\ unknownAMIs[r.id] = UnknownAMI(r.id, firstSeen[r.id])

\* C6: a region whose instance listing fails is skipped and nothing else is:
\* the failing step changes no bucket, mark or count and moves on to the next
\* region, as the listing of a region without instances does; every region of
\* the list has been tried when the run finishes; and the loop is never
\* stuck and advances with every step, so that the run reaches the summary.
RegionAttempted(r) == r \in failedRegions \cup listedRegions
AllRegionsAttempted ==
  /\ Finished => \A k \in DOMAIN regions : RegionAttempted(regions[k])
  /\ ~Finished => regionIdx <= Len(regions) + 1
  /\ pc = "instances" => regionIdx <= Len(regions) /\ i < numInstances
  /\ pc = "regions" =>
       \A k \in 1..(regionIdx - 1) : RegionAttempted(regions[k])
FailureSkipsOnlyTheRegion ==
  failedRegions' # failedRegions =>
    /\ pc' = "regions"
    /\ regionIdx' = regionIdx + 1
    /\ UNCHANGED <<processedAMIs, verifiedAMIs, unverifiedAMIs, unknownAMIs,
                   privateAMIs, totalInstances, listedRegions, firstSeen>>
\* How far the two loops have come: the region, then the instance in it.
LoopProgress ==
  regionIdx * (MaxInstances + 2) + (IF pc = "instances" THEN i + 1 ELSE 0)
\* Every step of the scan loop moves it forward or ends it, and the loop has
\* a step to take as long as it has not ended.
LoopAdvances == ~Finished => Finished' \/ LoopProgress' > LoopProgress
LoopNeverStuck == ~Finished => ENABLED Next
RegionFailureIsolation ==
  /\ [](AllRegionsAttempted)
  /\ [](LoopNeverStuck)
  /\ [][FailureSkipsOnlyTheRegion]_vars
  /\ [][LoopAdvances]_vars

\* C6 witness: the listing failed for B, between A and C; images of A and of
\* C are classified and the summary is printed.
RegionFailureWitness ==
  /\ summary # <<>>
  /\ regions = <<"A", "B", "C">>
  /\ failedRegions = {"B"}
  /\ \E a, c \in ImageIds :
       /\ Holding(a) # {}
       /\ firstSeen[a] = "A"
       /\ Holding(c) # {}
       /\ firstSeen[c] = "C"

\* C7: the rows of the export are a function of the four buckets: whatever
\* the export can write from one bucket state is one and the same file.
ExportIdempotent ==
  pc = "summary" => \A f, g \in ExportFiles : f = g

\* C8: every row written for an Unknown image holds Unknown in the status
\* column and in the five columns after it, and has as many fields as the
\* header.
UnknownRowFormat ==
  \A k \in DOMAIN file :
    file[k][3] = "Unknown" =>
      /\ Len(file[k]) = Len(Header)
      /\ \A j \in 4..Len(Header) : file[k][j] = "Unknown"

\* The buckets the end-to-end scenario ends with.
ScenarioBuckets ==
  /\ DOMAIN verifiedAMIs = {"ami-1"}
  /\ DOMAIN unverifiedAMIs = {"ami-2"}
  /\ DOMAIN unknownAMIs = {"ami-3"}
  /\ DOMAIN privateAMIs = {}
ScenarioDone == summary # <<>> /\ trace = <<>>

\* C9 as stated: the end-to-end scenario ends with totalInstances = 3, three
\* distinct images, Verified = {ami-1}, Unverified = {ami-2},
\* Unknown = {ami-3} and Private = {}.
ScenarioAsClaimed ==
  ScenarioDone =>
    /\ summary[1].totalInstances = 3
    /\ summary[1].totalAMIs = 3
    /\ ScenarioBuckets

\* C9 amended: the end-to-end scenario, whose two regions list two instances
\* each, ends with totalInstances = 4, three distinct images,
\* Verified = {ami-1}, Unverified = {ami-2}, Unknown = {ami-3}, Private = {}.
ScenarioResult ==
  ScenarioDone =>
    /\ summary[1].totalInstances = 4
    /\ summary[1].totalAMIs = 3
    /\ ScenarioBuckets

\* C9 witness: the scenario has been run to its summary.
ScenarioWitness ==
  /\ ScenarioDone
  /\ regions = <<"A", "B">>
  /\ firstSeen = [id \in ImageIds |-> IF id = "ami-3" THEN "B" ELSE "A"]

\* C10: the Region of every filed record is the first region in which an
\* instance using its image id was observed, and a filed record is never
\* changed, moved to another bucket or removed by a later step.
FirstObserverRegion ==
  \A n \in BucketNames : \A id \in DOMAIN Buckets[n] :
    /\ id \in Observed
    /\ Buckets[n][id].Region = firstSeen[id]
    /\ Buckets[n][id].ID = id
Kept(m, n, id) == id \in DOMAIN m => id \in DOMAIN n /\ n[id] = m[id]
NotAdded(m, n, id) == id \notin DOMAIN m => id \notin DOMAIN n
FiledRecordsKept ==
  \/ UNCHANGED <<verifiedAMIs, unverifiedAMIs, unknownAMIs, privateAMIs>>
  \/ \A id \in ImageIds :
       Holding(id) # {} =>
         /\ Kept(verifiedAMIs, verifiedAMIs', id)
         /\ Kept(unverifiedAMIs, unverifiedAMIs', id)
         /\ Kept(unknownAMIs, unknownAMIs', id)
         /\ Kept(privateAMIs, privateAMIs', id)
         /\ NotAdded(verifiedAMIs, verifiedAMIs', id)
         /\ NotAdded(unverifiedAMIs, unverifiedAMIs', id)
         /\ NotAdded(unknownAMIs, unknownAMIs', id)
         /\ NotAdded(privateAMIs, privateAMIs', id)
FirstObserverWins ==
  [](FirstObserverRegion) /\ [][FiledRecordsKept]_vars

\* C10 witness: ami-1, filed from region A, was used again by an instance of
\* region B, and its record still names region A at the end of the loop.
FirstObserverWitness ==
  /\ trace = <<>>
  /\ pc = "regions"
  /\ regionIdx > Len(regions)
  /\ "ami-1" \in DOMAIN verifiedAMIs
  /\ verifiedAMIs["ami-1"].Region = "A"
  /\ firstSeen["ami-3"] = "B"
====
